---- MODULE Spec2Model ----
(***************************************************************************)
(* A model of the verification engine of sigstore-python:                  *)
(*   - verify(), the orchestration in sigstore/_verify.py;                 *)
(*   - verify_set(), the Signed Entry Timestamp check in _internal/set.py; *)
(*   - the identity policies of sigstore/_verify/policy.py.                *)
(* Python exceptions that the code does not catch are modelled as the      *)
(* outcome "raised" carrying the exception's class name.                   *)
(***************************************************************************)
EXTENDS Integers, Sequences, FiniteSets, TLC

\* ------------------------------------------------------------------ bounds
MaxTime == 2
MaxEntries == 2
MaxChildren == 3

Times == 0..MaxTime

\* -------------------------------------------------- cryptographic primitives
\* An ECDSA signature is the pair (signing key, signed message); verifying it
\* under a public key and data succeeds exactly when both agree.
Sign(key, data) == [key |-> key, data |-> data]

EcdsaVerify(public_key, signature, data) ==
    signature = Sign(public_key, data)

\* ------------------------------------------------------------ certificates
FulcioRootCert ==
    [subject |-> "fulcio-root", not_valid_before |-> 1, not_valid_after |-> MaxTime]

Issuers == {"fulcio-root", "other-ca"}

NoKeyUsage == [present |-> FALSE, digital_signature |-> FALSE]
KeyUsages ==
    {NoKeyUsage} \cup {[present |-> TRUE, digital_signature |-> d] : d \in BOOLEAN}

NoExtendedKeyUsage == [present |-> FALSE, usages |-> {}]
ExtendedKeyUsages ==
    {NoExtendedKeyUsage}
        \cup {[present |-> TRUE, usages |-> u] : u \in {{"server_auth"}, {"code_signing"}}}

NoSan == [present |-> FALSE, rfc822 |-> {}, uri |-> {}, other |-> {}]
VerifySans ==
    {NoSan} \cup {[present |-> TRUE, rfc822 |-> e, uri |-> {}, other |-> {}] :
                    e \in {{}, {"a@example.com"}}}

\* The certificates handed to verify(): the custom OIDC extensions play no
\* part there and are left empty.
VerifyCerts ==
    {[issuer |-> i, not_valid_before |-> b, not_valid_after |-> a,
      public_key |-> "signer-key", key_usage |-> ku, extended_key_usage |-> eku,
      san |-> s, extensions |-> <<>>] :
        i \in Issuers, b \in Times, a \in {t \in Times : t >= MaxTime - 1},
        ku \in KeyUsages, eku \in ExtendedKeyUsages, s \in VerifySans}

\* X509StoreContext.verify_certificate: some certificate of the store issued
\* `c`, and both are within their validity interval at the store's time.
VerifyCertificate(store_certs, time, c) ==
    \E r \in store_certs :
        /\ r.subject = c.issuer
        /\ r.not_valid_before <= time /\ time <= r.not_valid_after
        /\ c.not_valid_before <= time /\ time <= c.not_valid_after

\* A variant that validates at the current time, as a store without
\* set_time does.
SignDateWallClock(c, wall_clock) == wall_clock

\* The time verify() validates the chain at.
SignDate(c, wall_clock) == c.not_valid_before

\* ------------------------------------------------------ transparency log
RekorKey == "rekor-key"
OtherKey == "other-key"

\* raw_data is a JSON object: a function from its keys to their values.
RawKeyOrder == <<"attestation", "body", "integratedTime", "verification">>

Restrict(f, keys) == [k \in keys |-> f[k]]

\* jcs.canonicalize: the members in sorted key order, each as <<key, value>>.
Canonicalize(obj) ==
    LET keys == SelectSeq(RawKeyOrder, LAMBDA k : k \in DOMAIN obj)
    IN  [n \in 1..Len(keys) |-> <<keys[n], obj[keys[n]]>>]

\* What the log signs: the entry without "verification" and "attestation".
SignedPayload(raw) ==
    Canonicalize(Restrict(raw, DOMAIN raw \ {"verification", "attestation"}))

RawData(has_verification, has_attestation) ==
    LET keys == {"body", "integratedTime"}
                  \cup (IF has_verification THEN {"verification"} ELSE {})
                  \cup (IF has_attestation THEN {"attestation"} ELSE {})
    IN  [k \in keys |-> IF k = "integratedTime" THEN "1" ELSE k \o "-value"]

\* The entries rekor.log.entries.get may return to verify(): "verification"
\* is there (the inclusion proof and the SET are read from it), "attestation"
\* may or may not be, the inclusion proof and the SET are good or bad.
RekorEntries ==
    {[raw_data |-> RawData(TRUE, att),
      inclusion_proof |-> p,
      signedEntryTimestamp |-> Sign(k, SignedPayload(RawData(TRUE, att)))] :
        att \in BOOLEAN, p \in {"valid", "invalid"}, k \in {RekorKey, OtherKey}}

\* verify_merkle_inclusion, by its verdict on the entry's proof.
MerkleInclusionHolds(entry) == entry.inclusion_proof = "valid"

\* The fields verify_set deletes from its copy of raw_data.
SetDeletedFields == <<"verification", "attestation">>

\* verify_set: "returned", or the exception it raises.  `del` of an absent
\* key raises KeyError; a bad signature raises InvalidSetError.
VerifySet(entry) ==
    LET raw == entry.raw_data
        missing == SelectSeq(SetDeletedFields, LAMBDA k : k \notin DOMAIN raw)
        rest == Restrict(raw, DOMAIN raw \ {SetDeletedFields[n] : n \in 1..Len(SetDeletedFields)})
    IN  IF missing # <<>> THEN "KeyError"
        ELSE IF EcdsaVerify(RekorKey, entry.signedEntryTimestamp, Canonicalize(rest))
             THEN "returned"
             ELSE "InvalidSetError"

\* ---------------------------------------------------------------- policies
OIDC_ISSUER_OID == "1.3.6.1.4.1.57264.1.1"
OIDC_GITHUB_WORKFLOW_REF_OID == "1.3.6.1.4.1.57264.1.6"
OTHERNAME_OID == "1.3.6.1.4.1.57264.1.7"

\* A byte string: text when it is valid UTF-8, undecodable otherwise.
Encode(text) == [utf8 |-> TRUE, text |-> text]
NonUtf8Bytes == [utf8 |-> FALSE, text |-> ""]

OtherName(type_id, value) == [type_id |-> type_id, value |-> value]

VerificationSuccess == [success |-> TRUE]
VerificationFailure(reason_) == [success |-> FALSE, reason |-> reason_]
\* An exception leaving verify() instead of a result.
Exception(class) == [exception |-> class]
IsException(r) == "exception" \in DOMAIN r

\* The policy objects, by their constructors.
Issuer(value) == [kind |-> "Issuer", value |-> value]
GitHubWorkflowRef(value) == [kind |-> "GitHubWorkflowRef", value |-> value]
Identity(identity, issuer) ==
    [kind |-> "Identity", identity |-> identity, issuer |-> Issuer(issuer)]
AnyOf(children) == [kind |-> "AnyOf", children |-> children]
AllOf(children) == [kind |-> "AllOf", children |-> children]

\* Klass.verify of the _single_x509v3_extension decorator.
SingleExtensionVerify(name, oid, value, c) ==
    IF oid \notin DOMAIN c.extensions
    THEN VerificationFailure(
            "Certificate does not contain " \o name \o " (" \o oid \o ") extension")
    ELSE LET ext == c.extensions[oid]
         IN  IF ~ext.utf8 THEN Exception("UnicodeDecodeError")
             ELSE IF ext.text # value
                  THEN VerificationFailure(
                          "Certificate's " \o name \o " does not match (got "
                              \o ext.text \o ", expected " \o value \o ")")
                  ELSE VerificationSuccess

IssuerVerify(p, c) == SingleExtensionVerify("Issuer", OIDC_ISSUER_OID, p.value, c)

GitHubWorkflowRefVerify(p, c) ==
    SingleExtensionVerify("GitHubWorkflowRef", OIDC_GITHUB_WORKFLOW_REF_OID, p.value, c)

IdentityVerify(p, c) ==
    LET issuer_verified == IssuerVerify(p.issuer, c)
    IN  IF IsException(issuer_verified) \/ ~issuer_verified.success
        THEN issuer_verified
        ELSE IF ~c.san.present THEN Exception("ExtensionNotFound")
        ELSE IF \/ p.identity \in c.san.rfc822
                \/ p.identity \in c.san.uri
                \/ OtherName(OTHERNAME_OID, Encode(p.identity)) \in c.san.other
             THEN VerificationSuccess
             ELSE VerificationFailure("Certificate's SANs do not match " \o p.identity)

\* any(...) over the children's results, taken in order and stopping at the
\* first truthy one; an exception met before that leaves any().
RECURSIVE AnyTruthy(_)
AnyTruthy(results) ==
    IF results = <<>> THEN [value |-> FALSE]
    ELSE IF IsException(Head(results)) THEN Head(results)
    ELSE IF Head(results).success THEN [value |-> TRUE]
    ELSE AnyTruthy(Tail(results))

\* ", ".join(strings)
RECURSIVE Join(_, _)
Join(strings, sep) ==
    IF strings = <<>> THEN ""
    ELSE IF Len(strings) = 1 THEN strings[1]
    ELSE strings[1] \o sep \o Join(Tail(strings), sep)

\* AnyOf.verify, given what each child's verify gives on the certificate.
AnyOfVerify(children, results) ==
    LET verified == AnyTruthy(results)
    IN  IF IsException(verified) THEN verified
        ELSE IF verified.value THEN VerificationSuccess
        ELSE VerificationFailure(
                "0 of " \o ToString(Len(children)) \o " policies succeeded")

\* A variant without the guard on the empty child list.
AllOfVerifyVacuous(children, results) ==
    LET raised == SelectSeq(results, IsException)
    IN  IF raised # <<>> THEN Head(raised)
        ELSE LET failed == SelectSeq(results, LAMBDA r : ~r.success)
                 failures == [n \in 1..Len(failed) |-> failed[n].reason]
             IN  IF Len(failures) > 0
                 THEN VerificationFailure(
                         ToString(Len(failures)) \o " of "
                             \o ToString(Len(children)) \o " policies failed: "
                             \o Join(failures, ", "))
                 ELSE VerificationSuccess

\* AllOf.verify, given what each child's verify gives on the certificate.
\* The list comprehension calls every child: the first exception leaves it.
AllOfVerify(children, results) ==
    IF Len(children) < 1 THEN VerificationFailure("no child policies to verify")
    ELSE LET raised == SelectSeq(results, IsException)
         IN  IF raised # <<>> THEN Head(raised)
             ELSE LET failed == SelectSeq(results, LAMBDA r : ~r.success)
                      failures == [n \in 1..Len(failed) |-> failed[n].reason]
                  IN  IF Len(failures) > 0
                      THEN VerificationFailure(
                              ToString(Len(failures)) \o " of "
                                  \o ToString(Len(children)) \o " policies failed: "
                                  \o Join(failures, ", "))
                      ELSE VerificationSuccess

\* policy.verify(cert)
RECURSIVE PolicyVerify(_, _)
PolicyVerify(p, c) ==
    CASE p.kind = "Issuer" -> IssuerVerify(p, c)
      [] p.kind = "GitHubWorkflowRef" -> GitHubWorkflowRefVerify(p, c)
      [] p.kind = "Identity" -> IdentityVerify(p, c)
      [] p.kind = "AnyOf" ->
            AnyOfVerify(p.children,
                        [n \in 1..Len(p.children) |-> PolicyVerify(p.children[n], c)])
      [] p.kind = "AllOf" ->
            AllOfVerify(p.children,
                        [n \in 1..Len(p.children) |-> PolicyVerify(p.children[n], c)])

\* The inputs of the policy engine.
GitHubIssuer == "https://github.com/login/oauth"

PolicyExtensions ==
    {[o \in oids |-> IF o = OIDC_ISSUER_OID THEN i ELSE Encode("refs/heads/main")] :
        oids \in SUBSET {OIDC_ISSUER_OID, OIDC_GITHUB_WORKFLOW_REF_OID},
        i \in {Encode(GitHubIssuer), NonUtf8Bytes}}

WorkflowUri == "https://github.com/octo/repo/.github/workflows/ci.yml@refs/heads/main"

PolicySans ==
    {NoSan,
     [present |-> TRUE, rfc822 |-> {"william@yossarian.net"}, uri |-> {}, other |-> {}],
     [present |-> TRUE, rfc822 |-> {}, uri |-> {WorkflowUri}, other |-> {}],
     [present |-> TRUE, rfc822 |-> {}, uri |-> {},
      other |-> {OtherName(OTHERNAME_OID, Encode("foo"))}]}

PolicyCerts ==
    {[issuer |-> "fulcio-root", not_valid_before |-> 1, not_valid_after |-> MaxTime,
      public_key |-> "signer-key",
      key_usage |-> [present |-> TRUE, digital_signature |-> TRUE],
      extended_key_usage |-> [present |-> TRUE, usages |-> {"code_signing"}],
      san |-> s, extensions |-> e] : s \in PolicySans, e \in PolicyExtensions}

LeafPolicies ==
    {Issuer(GitHubIssuer), Issuer("bar"), GitHubWorkflowRef("refs/heads/main"),
     Identity("william@yossarian.net", GitHubIssuer), Identity("foo", GitHubIssuer),
     Identity("foo", "bar")}

ChildPolicies == LeafPolicies \cup {AnyOf(<<>>), AllOf(<<>>)}

ChildLists == UNION {[1..n -> ChildPolicies] : n \in 0..MaxChildren}

Policies ==
    LeafPolicies \cup {Identity(WorkflowUri, GitHubIssuer)}
        \cup {AnyOf(cs) : cs \in ChildLists} \cup {AllOf(cs) : cs \in ChildLists}

NoPolicy == [kind |-> "none"]
NoResult == [none |-> TRUE]

\* ------------------------------------------------------------------ state
VARIABLES
    cert,              \* the signing certificate
    cert_email,        \* the expected signer identity, or None
    artifact_signature,\* the signature read from signature_path
    wall_clock,        \* the current time of the machine
    pc,                \* verify()'s position
    store,             \* the certificates of the X509Store
    store_time,        \* the X509Store's verification time (the current time until set)
    uuids,             \* how many entries the Rekor lookup returned
    fetched,           \* the entries fetched so far, in order
    valid_sig_exists,  \* verify()'s flag
    calls,             \* the checks performed so far, in order
    out,               \* the messages passed to output()
    outcome,           \* "running" | "success" | "failure" | "raised"
    reason,            \* the failure message, or the uncaught exception
    policy,            \* the policy object constructed, if any
    result,            \* what policy.verify(cert) gave, if called
    caller_list,       \* the list object a caller passes to AnyOf or AllOf
    history,           \* the constructor call and the verify calls made on it
    sct,               \* the signed certificate timestamp given to verify_sct
    ctfe_key,          \* the log's public key given to verify_sct
    sct_pc,            \* verify_sct's position
    sct_calls,         \* what verify_sct has done so far, in order
    digitally_signed,  \* what _pack_digitally_signed returned, if it did
    sct_error,         \* the exception that left verify_sct, if any
    set_entry,         \* the Rekor entry given to verify_set
    raw_data,          \* verify_set's copy of the entry's raw data
    canon_data,        \* the canonical bytes verify_set checks the SET over
    set_pc,            \* verify_set's position
    set_error,         \* the exception that left verify_set, if any
    hashed,            \* a Hashed value
    hashed_call,       \* the method called on it, if any
    hashed_result      \* what the method returned or raised

vars == <<cert, cert_email, artifact_signature, wall_clock, pc, store, store_time,
          uuids, fetched, valid_sig_exists, calls, out, outcome, reason,
          policy, result, caller_list, history,
          sct, ctfe_key, sct_pc, sct_calls, digitally_signed, sct_error,
          set_entry, raw_data, canon_data, set_pc, set_error,
          hashed, hashed_call, hashed_result>>

policy_vars == <<policy, result>>
alias_vars == <<caller_list, history>>
sct_vars == <<sct, ctfe_key, sct_pc, sct_calls, digitally_signed, sct_error>>
set_vars == <<set_entry, raw_data, canon_data, set_pc, set_error>>
hashed_vars == <<hashed, hashed_call, hashed_result>>
unit_vars == <<alias_vars, sct_vars, set_vars, hashed_vars>>

\* The parts of the state a run does not use stay as they are here.
AliasIdle == caller_list = <<>> /\ history = <<>>
SctIdle ==
    /\ sct = [none |-> TRUE]
    /\ ctfe_key = ""
    /\ sct_pc = "idle"
    /\ sct_calls = <<>>
    /\ digitally_signed = <<>>
    /\ sct_error = [none |-> TRUE]
SetIdle ==
    /\ set_entry = [none |-> TRUE]
    /\ raw_data = [none |-> TRUE]
    /\ canon_data = <<>>
    /\ set_pc = "idle"
    /\ set_error = [none |-> TRUE]
HashedIdle ==
    /\ hashed = [none |-> TRUE]
    /\ hashed_call = "none"
    /\ hashed_result = [none |-> TRUE]
UnitsIdle == AliasIdle /\ SctIdle /\ SetIdle /\ HashedIdle

None == "<None>"
ArtifactContents == "artifact"

inputs == <<cert, cert_email, artifact_signature, wall_clock>>

Init ==
    /\ cert \in VerifyCerts
    /\ cert_email \in {None, "a@example.com"}
    /\ artifact_signature \in {Sign(k, ArtifactContents) : k \in {"signer-key", OtherKey}}
    /\ wall_clock \in Times
    /\ pc = "verify_certificate"
    /\ store = {}
    /\ store_time = wall_clock
    /\ uuids = 0
    /\ fetched = <<>>
    /\ valid_sig_exists = FALSE
    /\ calls = <<>>
    /\ out = <<>>
    /\ outcome = "running"
    /\ reason = ""
    /\ policy = NoPolicy
    /\ result = NoResult
    /\ UnitsIdle

\* An uncaught exception leaves verify().
Raise(exception) ==
    /\ outcome' = "raised"
    /\ reason' = exception
    /\ pc' = "done"
    /\ out' = out

\* output(message); return None.  (The backquotes of the source's messages
\* are written as quotes.)
Fail(message) ==
    /\ outcome' = "failure"
    /\ reason' = message
    /\ pc' = "done"
    /\ out' = Append(out, message)

Continue(next_pc, messages) ==
    /\ outcome' = outcome
    /\ reason' = reason
    /\ pc' = next_pc
    /\ out' = out \o messages

\* 1) the chain: a store holding the root, set to the signing date.
CheckChain ==
    /\ pc = "verify_certificate"
    /\ store' = {FulcioRootCert}
    /\ store_time' = SignDate(cert, wall_clock)
    /\ calls' = Append(calls, "verify_certificate")
    /\ IF VerifyCertificate(store', store_time', cert)
       THEN Continue("key_usage", <<>>)
       ELSE Raise("X509StoreContextError")
    /\ UNCHANGED <<inputs, uuids, fetched, valid_sig_exists, policy_vars, unit_vars>>

\* A variant without the `return None` after the key-usage message.
CheckKeyUsageNoReturn ==
    /\ pc = "key_usage"
    /\ calls' = Append(calls, "key_usage")
    /\ IF ~cert.key_usage.present THEN Raise("ExtensionNotFound")
       ELSE IF ~cert.key_usage.digital_signature
            THEN Continue("extended_key_usage",
                    <<"Key usage is not of type 'digital signature'">>)
            ELSE Continue("extended_key_usage", <<>>)
    /\ UNCHANGED <<inputs, store, store_time, uuids, fetched, valid_sig_exists, policy_vars, unit_vars>>

\* 2) usage is "digital signature"
CheckKeyUsage ==
    /\ pc = "key_usage"
    /\ calls' = Append(calls, "key_usage")
    /\ IF ~cert.key_usage.present THEN Raise("ExtensionNotFound")
       ELSE IF ~cert.key_usage.digital_signature
            THEN Fail("Key usage is not of type 'digital signature'")
            ELSE Continue("extended_key_usage", <<>>)
    /\ UNCHANGED <<inputs, store, store_time, uuids, fetched, valid_sig_exists, policy_vars, unit_vars>>

\* A variant that looks for the wrong extended-key-usage OID.
CheckExtendedKeyUsageWrongOid ==
    /\ pc = "extended_key_usage"
    /\ calls' = Append(calls, "extended_key_usage")
    /\ IF ~cert.extended_key_usage.present THEN Raise("ExtensionNotFound")
       ELSE IF "server_auth" \notin cert.extended_key_usage.usages
            THEN Fail("Extended usage does not contain 'code signing'")
            ELSE Continue("identity", <<>>)
    /\ UNCHANGED <<inputs, store, store_time, uuids, fetched, valid_sig_exists, policy_vars, unit_vars>>

\* extended usage contains "code signing"
CheckExtendedKeyUsage ==
    /\ pc = "extended_key_usage"
    /\ calls' = Append(calls, "extended_key_usage")
    /\ IF ~cert.extended_key_usage.present THEN Raise("ExtensionNotFound")
       ELSE IF "code_signing" \notin cert.extended_key_usage.usages
            THEN Fail("Extended usage does not contain 'code signing'")
            ELSE Continue("identity", <<>>)
    /\ UNCHANGED <<inputs, store, store_time, uuids, fetched, valid_sig_exists, policy_vars, unit_vars>>

\* the SAN holds the signer identity, when one is expected
CheckIdentity ==
    /\ pc = "identity"
    /\ IF cert_email # None
       THEN /\ calls' = Append(calls, "identity")
            /\ IF ~cert.san.present THEN Raise("ExtensionNotFound")
               ELSE IF cert_email \notin cert.san.rfc822
                    THEN Fail("Subject name does not contain identity: " \o cert_email)
                    ELSE Continue("signature",
                            <<"Successfully verified signing certificate validity...">>)
       ELSE /\ calls' = calls
            /\ Continue("signature",
                    <<"Successfully verified signing certificate validity...">>)
    /\ UNCHANGED <<inputs, store, store_time, uuids, fetched, valid_sig_exists, policy_vars, unit_vars>>

\* 3) the signature was made by the certificate's key
CheckSignature ==
    /\ pc = "signature"
    /\ calls' = Append(calls, "signature")
    /\ IF EcdsaVerify(cert.public_key, artifact_signature, ArtifactContents)
       THEN Continue("rekor_lookup", <<"Successfully verified signature...">>)
       ELSE Raise("InvalidSignature")
    /\ UNCHANGED <<inputs, store, store_time, uuids, fetched, valid_sig_exists, policy_vars, unit_vars>>

\* the Rekor index lookup returns some uuids
RekorLookup ==
    /\ pc = "rekor_lookup"
    /\ calls' = Append(calls, "rekor_lookup")
    /\ \E n \in 0..MaxEntries : uuids' = n
    /\ valid_sig_exists' = FALSE
    /\ Continue("entries", <<>>)
    /\ UNCHANGED <<inputs, store, store_time, fetched, policy_vars, unit_vars>>

\* one turn of the loop over the uuids
CheckEntry ==
    /\ pc = "entries"
    /\ Len(fetched) < uuids
    /\ \E entry \in RekorEntries :
        /\ fetched' = Append(fetched, entry)
        /\ IF ~MerkleInclusionHolds(entry)
           THEN /\ calls' = Append(calls, "verify_merkle_inclusion")
                /\ valid_sig_exists' = valid_sig_exists
                /\ Continue("entries",
                        <<"Failed to validate Rekor entry's inclusion proof">>)
           ELSE /\ calls' = calls \o <<"verify_merkle_inclusion", "verify_set">>
                /\ IF VerifySet(entry) = "returned"
                   THEN /\ valid_sig_exists' = TRUE
                        /\ Continue("entries", <<>>)
                   ELSE /\ valid_sig_exists' = valid_sig_exists
                        /\ Raise(VerifySet(entry))
    /\ UNCHANGED <<inputs, store, store_time, uuids, policy_vars, unit_vars>>

\* A variant that reports success without looking at valid_sig_exists.
FinishIgnoringFlag ==
    /\ pc = "entries"
    /\ Len(fetched) = uuids
    /\ outcome' = "success"
    /\ reason' = ""
    /\ pc' = "done"
    /\ out' = Append(out, "Successfully verified Rekor entry...")
    /\ UNCHANGED <<inputs, store, store_time, uuids, fetched, valid_sig_exists, calls, policy_vars, unit_vars>>

\* after the loop
Finish ==
    /\ pc = "entries"
    /\ Len(fetched) = uuids
    /\ IF ~valid_sig_exists
       THEN Fail("No valid Rekor entries were found")
       ELSE /\ outcome' = "success"
            /\ reason' = ""
            /\ pc' = "done"
            /\ out' = Append(out, "Successfully verified Rekor entry...")
    /\ UNCHANGED <<inputs, store, store_time, uuids, fetched, valid_sig_exists, calls, policy_vars, unit_vars>>

Next ==
    \/ CheckChain
    \/ CheckKeyUsage
    \/ CheckExtendedKeyUsage
    \/ CheckIdentity
    \/ CheckSignature
    \/ RekorLookup
    \/ CheckEntry
    \/ Finish

Spec == Init /\ [][Next]_vars

\* ------------------------------------------------- the policy engine alone
verify_vars == <<cert_email, artifact_signature, wall_clock, pc, store, store_time,
                 uuids, fetched, valid_sig_exists, calls, out, outcome, reason>>

PolicyInit ==
    /\ cert \in PolicyCerts
    /\ cert_email = None
    /\ artifact_signature = Sign("signer-key", ArtifactContents)
    /\ wall_clock = 1
    /\ pc = "policy"
    /\ store = {}
    /\ store_time = wall_clock
    /\ uuids = 0
    /\ fetched = <<>>
    /\ valid_sig_exists = FALSE
    /\ calls = <<>>
    /\ out = <<>>
    /\ outcome = "running"
    /\ reason = ""
    /\ policy = NoPolicy
    /\ result = NoResult
    /\ UnitsIdle

\* A caller constructs a policy.
Construct ==
    /\ pc = "policy"
    /\ policy = NoPolicy
    /\ \E p \in Policies : policy' = p
    /\ UNCHANGED <<cert, verify_vars, result, unit_vars>>

\* A caller calls policy.verify(cert).
CallVerify ==
    /\ pc = "policy"
    /\ policy # NoPolicy
    /\ result' = PolicyVerify(policy, cert)
    /\ UNCHANGED <<cert, verify_vars, policy, unit_vars>>

PolicyNext ==
    \/ Construct
    \/ CallVerify

PolicySpec == PolicyInit /\ [][PolicyNext]_vars

\* ------------------------------------------- a caller that keeps its list
MaxListLen == 2
MaxCalls == 2

\* verify()'s variables, at rest.
VerifyIdle ==
    /\ cert_email = None
    /\ artifact_signature = Sign("signer-key", ArtifactContents)
    /\ wall_clock = 1
    /\ pc = "policy"
    /\ store = {}
    /\ store_time = wall_clock
    /\ uuids = 0
    /\ fetched = <<>>
    /\ valid_sig_exists = FALSE
    /\ calls = <<>>
    /\ out = <<>>
    /\ outcome = "running"
    /\ reason = ""

\* The policies a caller puts into the list it passes.
ListPolicies == {Issuer(GitHubIssuer), Identity("foo", GitHubIssuer)}
CallerLists == UNION {[1..n -> ListPolicies] : n \in 0..MaxListLen}

\* `self._children = children` stores the caller's list object itself: the
\* policy's field is a reference to it.
CallerListRef == [ref |-> "caller_list"]

\* The policy with its children read through the reference.
Deref(p) == [p EXCEPT !.children = caller_list]

AliasInit ==
    /\ cert \in PolicyCerts
    /\ VerifyIdle
    /\ policy = NoPolicy
    /\ result = NoResult
    /\ caller_list \in CallerLists
    /\ history = <<>>
    /\ SctIdle
    /\ SetIdle
    /\ HashedIdle

\* p = AnyOf(children) or p = AllOf(children), on the caller's list.
ConstructComposite ==
    /\ policy = NoPolicy
    /\ \E kind \in {"AnyOf", "AllOf"} :
          policy' = [kind |-> kind, children |-> CallerListRef]
    /\ history' = <<[call |-> "__init__", children |-> caller_list, result |-> NoResult]>>
    /\ UNCHANGED <<cert, verify_vars, result, caller_list, sct_vars, set_vars, hashed_vars>>

\* p.verify(cert)
CallVerifyComposite ==
    /\ policy # NoPolicy
    /\ Len(history) <= MaxCalls
    /\ result' = PolicyVerify(Deref(policy), cert)
    /\ history' = Append(history,
                         [call |-> "verify", children |-> caller_list, result |-> result'])
    /\ UNCHANGED <<cert, verify_vars, policy, caller_list, sct_vars, set_vars, hashed_vars>>

\* The caller goes on using its list: children.append(p)
CallerAppends ==
    /\ policy # NoPolicy
    /\ Len(caller_list) < MaxListLen
    /\ \E p \in ListPolicies : caller_list' = Append(caller_list, p)
    /\ UNCHANGED <<cert, verify_vars, policy, result, history, sct_vars, set_vars, hashed_vars>>

\* children.pop()
CallerPops ==
    /\ policy # NoPolicy
    /\ caller_list # <<>>
    /\ caller_list' = SubSeq(caller_list, 1, Len(caller_list) - 1)
    /\ UNCHANGED <<cert, verify_vars, policy, result, history, sct_vars, set_vars, hashed_vars>>

AliasNext ==
    \/ ConstructComposite
    \/ CallVerifyComposite
    \/ CallerAppends
    \/ CallerPops

AliasSpec == AliasInit /\ [][AliasNext]_vars

\* ------------------------------------------------------------ verify_sct
\* A natural number of any size, as its base-256 digits, the most
\* significant first and without leading zeros (zero is the empty sequence).
RECURSIVE ToNumeral(_)
ToNumeral(n) == IF n = 0 THEN <<>> ELSE Append(ToNumeral(n \div 256), n % 256)

\* struct.pack of an unsigned field of `width` bytes, big-endian ("!"):
\* a value that does not fit raises struct.error.
StructError == Exception("struct.error")
PackUnsigned(width, numeral) ==
    IF Len(numeral) > width THEN StructError
    ELSE [bytes |-> [n \in 1..(width - Len(numeral)) |-> 0] \o numeral]

\* struct.pack of "h", a signed field of two bytes: the non-negative values
\* that fit are those below 2^15.
PackShort(numeral) ==
    IF Len(numeral) > 2 \/ (Len(numeral) = 2 /\ numeral[1] >= 128) THEN StructError
    ELSE PackUnsigned(2, numeral)

\* A byte string: a sequence of chunks, each either literal bytes
\* [bytes |-> <<...>>] or an opaque blob [len |-> numeral, blob |-> name];
\* no chunk is empty and no two literal chunks are adjacent.
Blob(name, len) == [len |-> len, blob |-> name]
IsLiteral(chunk) == "bytes" \in DOMAIN chunk
Chunk(chunk) ==
    IF IsLiteral(chunk) THEN (IF chunk.bytes = <<>> THEN <<>> ELSE <<chunk>>)
    ELSE (IF chunk.len = <<>> THEN <<>> ELSE <<chunk>>)
Concat(a, b) ==
    IF a = <<>> THEN b
    ELSE IF b = <<>> THEN a
    ELSE IF IsLiteral(a[Len(a)]) /\ IsLiteral(b[1])
         THEN SubSeq(a, 1, Len(a) - 1)
                \o <<[bytes |-> a[Len(a)].bytes \o b[1].bytes]>>
                \o SubSeq(b, 2, Len(b))
         ELSE a \o b

InvalidSctError(message, len) ==
    [exception |-> "InvalidSctError", message |-> message, len |-> len]

\* struct.pack(pattern, ...) of _pack_digitally_signed: [data |-> the
\* fields in the pattern's order], or the struct.error of the first field
\* that does not fit.
RECURSIVE PackFields(_)
PackFields(fields) ==
    IF fields = <<>> THEN [data |-> <<>>]
    ELSE IF IsException(Head(fields)) THEN Head(fields)
    ELSE LET rest == PackFields(Tail(fields))
         IN  IF IsException(rest) THEN rest
             ELSE [data |-> Concat(Chunk(Head(fields)), rest.data)]

\* _pack_digitally_signed(sct, cert): [data |-> the bytes], or the exception
\* raised.
PackDigitallySigned(sct_, cert_) ==
    LET cert_der == cert_.public_bytes
        length == PackUnsigned(4, cert_der.len)
    IN  IF IsException(length) THEN length
        ELSE IF length.bytes[1] # 0
             THEN InvalidSctError("Unexpectedly large certificate length", cert_der.len)
             ELSE PackFields(<<PackUnsigned(1, sct_.struct.sct_version),
                               PackUnsigned(1, ToNumeral(0)),
                               PackUnsigned(8, sct_.struct.timestamp),
                               PackShort(ToNumeral(0)),
                               [bytes |-> <<length.bytes[2]>>],
                               [bytes |-> <<length.bytes[3]>>],
                               [bytes |-> <<length.bytes[4]>>],
                               cert_der,
                               PackShort(sct_.struct.extensions.len)>>)

\* The inputs of verify_sct.  The lengths are 3, 256, 70000, 2^24 - 1, 2^24,
\* 2^32 - 1 and 2^32 bytes for the certificate and 0, 2, 300 and 40000
\* for the extensions.
CtfeKey == "ctfe-key"

CertDerLengths ==
    {<<3>>, <<1, 0>>, <<1, 17, 112>>, <<255, 255, 255>>, <<1, 0, 0, 0>>,
     <<255, 255, 255, 255>>, <<1, 0, 0, 0, 0>>}

SctCerts == {[public_bytes |-> Blob("cert_der", len)] : len \in CertDerLengths}

SctStructs ==
    [sct_version : {ToNumeral(0), ToNumeral(1)},
     timestamp : {ToNumeral(0), <<1, 131, 3, 84, 16, 7>>},
     extensions : {Blob("extensions", len) : len \in {<<>>, <<2>>, <<1, 44>>, <<156, 64>>}}]

\* The SCTs a certificate may come with: the signature is the log's, or
\* another key's, over the bytes _pack_digitally_signed gives (over no
\* bytes where it gives none).
SignedBytes(struct_, cert_) ==
    LET packed == PackDigitallySigned([struct |-> struct_], cert_)
    IN  IF IsException(packed) THEN [data |-> <<>>] ELSE packed

SctsFor(cert_) ==
    {[struct |-> st, signature |-> Sign(k, SignedBytes(st, cert_))] :
        st \in SctStructs, k \in {CtfeKey, OtherKey}}

NoError == [none |-> TRUE]

SctInit ==
    /\ cert \in SctCerts
    /\ VerifyIdle
    /\ policy = NoPolicy
    /\ result = NoResult
    /\ AliasIdle
    /\ SetIdle
    /\ HashedIdle
    /\ sct \in SctsFor(cert)
    /\ ctfe_key = CtfeKey
    /\ sct_pc = "pack"
    /\ sct_calls = <<>>
    /\ digitally_signed = <<>>
    /\ sct_error = NoError

sct_frame == <<cert, verify_vars, policy_vars, alias_vars, set_vars, hashed_vars,
               sct, ctfe_key>>

\* digitally_signed = _pack_digitally_signed(sct, cert)
CallPackDigitallySigned ==
    /\ sct_pc = "pack"
    /\ LET cert_der == cert.public_bytes
           length == PackUnsigned(4, cert_der.len)
           data == PackDigitallySigned(sct, cert)
       IN  IF IsException(length)
           THEN /\ sct_calls' = sct_calls \o <<"public_bytes">>
                /\ digitally_signed' = digitally_signed
                /\ sct_error' = length
                /\ sct_pc' = "done"
           ELSE IF length.bytes[1] # 0
           THEN /\ sct_calls' = sct_calls \o <<"public_bytes", "if unused">>
                /\ digitally_signed' = digitally_signed
                /\ sct_error' = data
                /\ sct_pc' = "done"
           ELSE IF IsException(data)
           THEN /\ sct_calls' = sct_calls \o <<"public_bytes", "if unused", "struct.pack">>
                /\ digitally_signed' = digitally_signed
                /\ sct_error' = data
                /\ sct_pc' = "done"
           ELSE /\ sct_calls' = sct_calls \o <<"public_bytes", "if unused", "struct.pack">>
                /\ digitally_signed' = data.data
                /\ sct_error' = sct_error
                /\ sct_pc' = "verify"
    /\ UNCHANGED sct_frame

\* ctfe_key.verify(...): InvalidSignature becomes InvalidSctError.
VerifySctSignature ==
    /\ sct_pc = "verify"
    /\ sct_calls' = Append(sct_calls, "ctfe_key.verify")
    /\ sct_error' = IF EcdsaVerify(ctfe_key, sct.signature, [data |-> digitally_signed])
                     THEN sct_error
                     ELSE InvalidSctError("", <<>>)
    /\ sct_pc' = "done"
    /\ UNCHANGED <<sct_frame, digitally_signed>>

SctNext ==
    \/ CallPackDigitallySigned
    \/ VerifySctSignature

SctSpec == SctInit /\ [][SctNext]_vars

\* ------------------------------------------------------------ verify_set
\* The entries verify_set may be given: "verification" and "attestation"
\* are each there or not; the SET is the log's or another key's, over the
\* entry without the two fields, over the whole entry or over another body.
SetsOver(raw) ==
    {Sign(k, signed) :
        k \in {RekorKey, OtherKey},
        signed \in {SignedPayload(raw), Canonicalize(raw),
                    Canonicalize([body |-> "other-body", integratedTime |-> "1"])}}

SetEntries ==
    UNION {{[raw_data |-> RawData(ver, att),
             inclusion_proof |-> p,
             signedEntryTimestamp |-> set] :
                p \in {"valid", "invalid"}, set \in SetsOver(RawData(ver, att))} :
           ver \in BOOLEAN, att \in BOOLEAN}

\* verify_set takes no certificate.
NoCert == [none |-> TRUE]

SetInit ==
    /\ cert = NoCert
    /\ VerifyIdle
    /\ policy = NoPolicy
    /\ result = NoResult
    /\ AliasIdle
    /\ SctIdle
    /\ HashedIdle
    /\ set_entry \in SetEntries
    /\ raw_data = [none |-> TRUE]
    /\ canon_data = <<>>
    /\ set_pc = "copy"
    /\ set_error = NoError

set_frame == <<cert, verify_vars, policy_vars, alias_vars, sct_vars, hashed_vars,
               set_entry>>

\* raw_data = entry.raw_data.copy()
CopyRawData ==
    /\ set_pc = "copy"
    /\ raw_data' = set_entry.raw_data
    /\ set_pc' = "del_verification"
    /\ UNCHANGED <<set_frame, canon_data, set_error>>

\* del raw_data[key]: KeyError when the key is not there.
Del(key, next_pc) ==
    IF key \in DOMAIN raw_data
    THEN /\ raw_data' = Restrict(raw_data, DOMAIN raw_data \ {key})
         /\ set_pc' = next_pc
         /\ set_error' = set_error
    ELSE /\ raw_data' = raw_data
         /\ set_pc' = "done"
         /\ set_error' = Exception("KeyError")

\* del raw_data["verification"]
DelVerification ==
    /\ set_pc = "del_verification"
    /\ Del(SetDeletedFields[1], "del_attestation")
    /\ UNCHANGED <<set_frame, canon_data>>

\* del raw_data["attestation"]
DelAttestation ==
    /\ set_pc = "del_attestation"
    /\ Del(SetDeletedFields[2], "verify")
    /\ UNCHANGED <<set_frame, canon_data>>

\* canon_data = jcs.canonicalize(raw_data); rekor_key.verify(...)
VerifySetSignature ==
    /\ set_pc = "verify"
    /\ canon_data' = Canonicalize(raw_data)
    /\ set_error' = IF EcdsaVerify(RekorKey, set_entry.signedEntryTimestamp, canon_data')
                     THEN set_error
                     ELSE Exception("InvalidSetError")
    /\ set_pc' = "done"
    /\ UNCHANGED <<set_frame, raw_data>>

SetNext ==
    \/ CopyRawData
    \/ DelVerification
    \/ DelAttestation
    \/ VerifySetSignature

SetSpec == SetInit /\ [][SetNext]_vars

\* ---------------------------------------------------------------- Hashed
\* The members of the HashAlgorithm enumeration.
HashAlgorithms ==
    {"HASH_ALGORITHM_UNSPECIFIED", "SHA2_256", "SHA2_384", "SHA2_512", "SHA3_256",
     "SHA3_384"}

\* The digests: byte strings of 0, 20, 31, 32, 33, 48 and 64 bytes.
Digests ==
    {[n \in 1..len |-> b] : len \in {0, 20, 31, 32, 33, 48, 64}, b \in {0, 255}}

\* The Hashed values: pydantic checks the two fields' types and no more.
HashedValues == [algorithm : HashAlgorithms, digest : Digests]

Returned(value) == [returned |-> value]
\* hashes.SHA256()
SHA256 == [hash_algorithm |-> "sha256"]
Prehashed(algorithm) == [prehashed |-> algorithm]

\* Hashed.hazmat_algorithm
HazmatAlgorithm(h) ==
    IF h.algorithm = "SHA2_256" THEN Returned(SHA256) ELSE Exception("ValueError")

\* Hashed.as_prehashed
AsPrehashed(h) ==
    LET algorithm == HazmatAlgorithm(h)
    IN  IF IsException(algorithm) THEN algorithm
        ELSE Returned(Prehashed(algorithm.returned))

HashedInit ==
    /\ cert = NoCert
    /\ VerifyIdle
    /\ policy = NoPolicy
    /\ result = NoResult
    /\ AliasIdle
    /\ SctIdle
    /\ SetIdle
    /\ hashed \in HashedValues
    /\ hashed_call = "none"
    /\ hashed_result = [none |-> TRUE]

hashed_frame == <<cert, verify_vars, policy_vars, alias_vars, sct_vars, set_vars, hashed>>

\* hashed.hazmat_algorithm()
CallHazmatAlgorithm ==
    /\ hashed_call = "none"
    /\ hashed_call' = "hazmat_algorithm"
    /\ hashed_result' = HazmatAlgorithm(hashed)
    /\ UNCHANGED hashed_frame

\* hashed.as_prehashed()
CallAsPrehashed ==
    /\ hashed_call = "none"
    /\ hashed_call' = "as_prehashed"
    /\ hashed_result' = AsPrehashed(hashed)
    /\ UNCHANGED hashed_frame

HashedNext ==
    \/ CallHazmatAlgorithm
    \/ CallAsPrehashed

HashedSpec == HashedInit /\ [][HashedNext]_vars

\* ================================================================= claims
\* What the inputs of verify() say about each check, stated from the inputs.
\* The certificate is issued by the root, begins within the root's validity
\* and does not end before it begins.
ChainsToRoot(c) ==
    /\ c.issuer = FulcioRootCert.subject
    /\ FulcioRootCert.not_valid_before <= c.not_valid_before
    /\ c.not_valid_before <= FulcioRootCert.not_valid_after
    /\ c.not_valid_before <= c.not_valid_after

HasDigitalSignature(c) == c.key_usage.present /\ c.key_usage.digital_signature
HasCodeSigning(c) ==
    c.extended_key_usage.present /\ "code_signing" \in c.extended_key_usage.usages
LacksDigitalSignature(c) == c.key_usage.present /\ ~c.key_usage.digital_signature
LacksCodeSigning(c) ==
    c.extended_key_usage.present /\ "code_signing" \notin c.extended_key_usage.usages

IdentityMatches == cert_email = None \/ (cert.san.present /\ cert_email \in cert.san.rfc822)

SignedByCertKey ==
    /\ artifact_signature.key = cert.public_key
    /\ artifact_signature.data = ArtifactContents

EntryPasses(e) ==
    /\ e.inclusion_proof = "valid"
    /\ e.signedEntryTimestamp.key = RekorKey
    /\ e.signedEntryTimestamp.data = SignedPayload(e.raw_data)
    /\ {"verification", "attestation"} \subseteq DOMAIN e.raw_data

SomeEntryPasses == \E n \in 1..Len(fetched) : EntryPasses(fetched[n])

AllChecksPass ==
    /\ ChainsToRoot(cert) /\ HasDigitalSignature(cert) /\ HasCodeSigning(cert)
    /\ IdentityMatches
    /\ SignedByCertKey
    /\ SomeEntryPasses

KeyUsageMessage == "Key usage is not of type 'digital signature'"
ExtendedKeyUsageMessage == "Extended usage does not contain 'code signing'"
NoValidEntriesMessage == "No valid Rekor entries were found"
SuccessMessage == "Successfully verified Rekor entry..."

StepOrder ==
    <<"verify_certificate", "key_usage", "extended_key_usage", "identity",
      "signature", "rekor_lookup">>

StepIndex(step) ==
    IF \E k \in 1..Len(StepOrder) : StepOrder[k] = step
    THEN CHOOSE k \in 1..Len(StepOrder) : StepOrder[k] = step
    ELSE Len(StepOrder) + 1

\* The first check before the loop that the inputs fail, with what it
\* reports, or <<>> when they pass them all.
FirstFailingStep ==
    IF ~ChainsToRoot(cert) THEN <<"verify_certificate", "X509StoreContextError">>
    ELSE IF ~cert.key_usage.present THEN <<"key_usage", "ExtensionNotFound">>
    ELSE IF ~cert.key_usage.digital_signature THEN <<"key_usage", KeyUsageMessage>>
    ELSE IF ~cert.extended_key_usage.present
         THEN <<"extended_key_usage", "ExtensionNotFound">>
    ELSE IF ~HasCodeSigning(cert) THEN <<"extended_key_usage", ExtendedKeyUsageMessage>>
    ELSE IF cert_email # None /\ ~cert.san.present THEN <<"identity", "ExtensionNotFound">>
    ELSE IF ~IdentityMatches
         THEN <<"identity", "Subject name does not contain identity: " \o cert_email>>
    ELSE IF ~SignedByCertKey THEN <<"signature", "InvalidSignature">>
    ELSE <<>>

\* C2: the checks run in the order chain, key usage, extended key usage,
\* identity, signature, log lookup, per-entry checks; a failing check ends
\* the run: no later check runs (no signature check and no log query after
\* a failed certificate or identity check) and what is reported is the
\* first failing check's message.
C2_FixedOrderFailFast ==
    /\ \A i, j \in 1..Len(calls) :
          i < j => \/ StepIndex(calls[i]) < StepIndex(calls[j])
                   \/ /\ StepIndex(calls[i]) > Len(StepOrder)
                      /\ StepIndex(calls[j]) > Len(StepOrder)
    /\ \A i \in 1..Len(calls) :
          calls[i] = "verify_set" => i > 1 /\ calls[i - 1] = "verify_merkle_inclusion"
    /\ (pc = "done" /\ FirstFailingStep # <<>>) =>
          /\ outcome \in {"failure", "raised"}
          /\ reason = FirstFailingStep[2]
          /\ calls[Len(calls)] = FirstFailingStep[1]
          /\ \A i \in 1..Len(calls) :
                StepIndex(calls[i]) <= StepIndex(FirstFailingStep[1])
          /\ fetched = <<>>
    /\ (pc = "done" /\ outcome # "success") => reason # ""
    /\ (pc = "done" /\ FirstFailingStep = <<>>) =>
          /\ \A k \in 1..Len(StepOrder) :
                (StepOrder[k] = "identity" /\ cert_email = None)
                    \/ \E i \in 1..Len(calls) : calls[i] = StepOrder[k]
          /\ reason \in {"", NoValidEntriesMessage, "InvalidSetError", "KeyError"}

C2_Witness ==
    /\ pc = "done"
    /\ FirstFailingStep # <<>>
    /\ FirstFailingStep[1] = "identity"
    /\ outcome = "failure"

LookupDone == \E i \in 1..Len(calls) : calls[i] = "rekor_lookup"

HasBothFields(e) == {"verification", "attestation"} \subseteq DOMAIN e.raw_data

\* C3: in the per-entry loop an entry whose SET check fails is skipped, not
\* fatal: the remaining entries are still examined, and when some entry
\* (before or after it) passes both checks the outcome is success.  Stated
\* for entries that carry both deleted fields, so that the only way a SET
\* check fails is its signature.
C3_SetFailureIsSkipped ==
    (pc = "done" /\ LookupDone /\ \A n \in 1..Len(fetched) : HasBothFields(fetched[n])) =>
        /\ Len(fetched) = uuids
        /\ SomeEntryPasses => outcome = "success"

\* C4: an entry whose inclusion proof fails is skipped without a SET check
\* and the loop goes on; when no entry passes (no entries at all included)
\* the outcome is the "no valid entries" failure, never success.  Stated for
\* entries that carry both deleted fields.
C4_InclusionFailureIsSkipped ==
    /\ \A n \in 1..Len(fetched) :
          (fetched[n].inclusion_proof = "invalid" /\ pc # "done") => outcome = "running"
    /\ (pc = "done" /\ LookupDone /\ ~SomeEntryPasses
            /\ \A n \in 1..Len(fetched) : HasBothFields(fetched[n])) =>
          /\ outcome = "failure"
          /\ reason = NoValidEntriesMessage

\* C5: every verification failure is a normal failure outcome; none leaves
\* verify() as an uncaught exception.
C5_NoUncaughtException == outcome # "raised"

\* C6 as stated: a certificate whose KeyUsage lacks digitalSignature or whose
\* ExtendedKeyUsage lacks code signing fails with the key-usage or extended-
\* key-usage error, never with the path-validation error, whether or not it
\* chains to the root.  Stated for certificates carrying both extensions.
C6_UsageErrorWhateverTheChain ==
    (pc = "done" /\ cert.key_usage.present /\ cert.extended_key_usage.present
        /\ (LacksDigitalSignature(cert) \/ LacksCodeSigning(cert))) =>
        /\ outcome = "failure"
        /\ reason = IF LacksDigitalSignature(cert) THEN KeyUsageMessage
                    ELSE ExtendedKeyUsageMessage

\* C6, amended: a certificate that chains to the root and whose KeyUsage
\* lacks digitalSignature fails with the key-usage message; one that chains,
\* has digitalSignature and whose ExtendedKeyUsage lacks code signing fails
\* with the extended-key-usage message; one that chains and lacks one of the
\* two extensions met first leaves with ExtensionNotFound; none of these
\* fails with the path-validation error.  A certificate that does not chain
\* fails with the path-validation error, whatever its usages.
C6_UsageErrorWhenChainHolds ==
    pc = "done" =>
        /\ (ChainsToRoot(cert) /\ LacksDigitalSignature(cert)) =>
              outcome = "failure" /\ reason = KeyUsageMessage
        /\ (ChainsToRoot(cert) /\ HasDigitalSignature(cert) /\ LacksCodeSigning(cert)) =>
              outcome = "failure" /\ reason = ExtendedKeyUsageMessage
        /\ (ChainsToRoot(cert) /\ (~cert.key_usage.present
                \/ (HasDigitalSignature(cert) /\ ~cert.extended_key_usage.present))) =>
              outcome = "raised" /\ reason = "ExtensionNotFound"
        /\ ~ChainsToRoot(cert) =>
              outcome = "raised" /\ reason = "X509StoreContextError"

C6_Witness ==
    /\ pc = "done"
    /\ ChainsToRoot(cert)
    /\ HasDigitalSignature(cert)
    /\ LacksCodeSigning(cert)
    /\ reason = ExtendedKeyUsageMessage

\* C7: the chain is validated against a store holding exactly the trusted
\* root, at the certificate's own not-valid-before instant: the verdict is
\* decided by the certificate and the root alone, the same at every value
\* of the wall clock.
C7_ChainVerdictIgnoresWallClock ==
    pc # "verify_certificate" =>
        /\ store = {FulcioRootCert}
        /\ store_time = cert.not_valid_before
        /\ (reason = "X509StoreContextError") <=> ~ChainsToRoot(cert)
        /\ \A t \in Times :
              VerifyCertificate(store, SignDate(cert, t), cert) = ChainsToRoot(cert)

C7_Witness ==
    /\ pc = "key_usage"
    /\ wall_clock < FulcioRootCert.not_valid_before
    /\ wall_clock # cert.not_valid_before

\* --- the policy engine
ChildResults ==
    [n \in 1..Len(policy.children) |-> PolicyVerify(policy.children[n], cert)]

Verified(kind) == policy.kind = kind /\ result # NoResult

\* C8: AnyOf.verify returns Success if and only if at least one child's
\* verify returns Success, and otherwise returns Failure with the reason
\* "0 of n policies succeeded".
C8_AnyOfResult ==
    Verified("AnyOf") =>
        IF \E n \in 1..Len(policy.children) : ChildResults[n] = VerificationSuccess
        THEN result = VerificationSuccess
        ELSE result = VerificationFailure(
                "0 of " \o ToString(Len(policy.children)) \o " policies succeeded")

\* C9: AllOf.verify on an empty child list returns Failure "no child
\* policies to verify"; on a non-empty list it returns Success if and only
\* if every child's verify returns Success.
C9_AllOfResult ==
    Verified("AllOf") =>
        IF Len(policy.children) = 0
        THEN result = VerificationFailure("no child policies to verify")
        ELSE (result = VerificationSuccess) <=>
                \A n \in 1..Len(policy.children) : ChildResults[n] = VerificationSuccess

C9_Witness ==
    /\ Verified("AllOf")
    /\ Len(policy.children) = 2
    /\ policy.children[1] # policy.children[2]
    /\ result = VerificationSuccess

\* The reasons of the children that return a Failure, in the list's order.
RECURSIVE FailureReasonsFrom(_)
FailureReasonsFrom(n) ==
    IF n > Len(policy.children) THEN <<>>
    ELSE (IF ~IsException(ChildResults[n]) /\ ChildResults[n] # VerificationSuccess
          THEN <<ChildResults[n].reason>> ELSE <<>>) \o FailureReasonsFrom(n + 1)

RECURSIVE CommaSeparated(_, _)
CommaSeparated(strings, n) ==
    IF n > Len(strings) THEN ""
    ELSE (IF n > 1 THEN ", " ELSE "") \o strings[n] \o CommaSeparated(strings, n + 1)

\* C10: when k >= 1 of AllOf's n children fail, AllOf.verify returns Failure
\* with the reason "k of n policies failed: " followed by the reasons of all
\* the failing children, joined by ", " in the list's order.
C10_AllOfFailureReason ==
    (Verified("AllOf") /\ Len(FailureReasonsFrom(1)) >= 1) =>
        result = VerificationFailure(
            ToString(Len(FailureReasonsFrom(1))) \o " of "
                \o ToString(Len(policy.children)) \o " policies failed: "
                \o CommaSeparated(FailureReasonsFrom(1), 1))

\* The combinators alone: on the runs where every child's verify returns
\* a result, AnyOf and AllOf give what C8 and C10 state.
AllChildrenReturn ==
    /\ policy.kind \in {"AnyOf", "AllOf"}
    /\ \A n \in 1..Len(policy.children) : ~IsException(ChildResults[n])

CombinatorsWhenChildrenReturn ==
    AllChildrenReturn => C8_AnyOfResult /\ C10_AllOfFailureReason

\* --- the leaf policies
\* What the Issuer(issuer) check alone gives on the certificate.
IssuerCheck == IssuerVerify(Issuer(policy.issuer.value), cert)

\* The identity is among the SAN's email names, its URI names, or its
\* other-names under the sigstore OID (an absent SAN has no names).
SanMatches ==
    \/ policy.identity \in cert.san.rfc822
    \/ policy.identity \in cert.san.uri
    \/ OtherName(OTHERNAME_OID, Encode(policy.identity)) \in cert.san.other

\* C11: Identity(identity, issuer).verify first runs the Issuer(issuer)
\* check and returns its failure unchanged when it fails; when the issuer
\* check succeeds it returns Success if and only if the identity equals a
\* SAN email name, a SAN URI name or the value of a SAN other-name under the
\* sigstore OID, and otherwise Failure "Certificate's SANs do not match
\* <identity>".
C11_IdentityResult ==
    Verified("Identity") =>
        IF IssuerCheck # VerificationSuccess
        THEN /\ ~IsException(result)
             /\ ~result.success
             /\ result = IssuerCheck
        ELSE IF SanMatches
             THEN result = VerificationSuccess
             ELSE result = VerificationFailure(
                     "Certificate's SANs do not match " \o policy.identity)

\* Identity.verify on the certificates that carry a SAN and whose issuer
\* extension, if any, decodes: there the result is what C11 states.
IdentityReturns ==
    /\ policy.kind = "Identity"
    /\ ~IsException(IssuerCheck)
    /\ IssuerCheck = VerificationSuccess => cert.san.present

IdentityWhenItReturns == IdentityReturns => C11_IdentityResult

IdentityMatchedByUri ==
    /\ Verified("Identity")
    /\ policy.identity \in cert.san.uri
    /\ result = VerificationSuccess

\* The three outcomes of a single-extension policy named `name` over `oid`.
ThreeOutcomes(name, oid) ==
    IF oid \notin DOMAIN cert.extensions
    THEN result = VerificationFailure(
            "Certificate does not contain " \o name \o " (" \o oid \o ") extension")
    ELSE IF cert.extensions[oid] # Encode(policy.value)
         THEN /\ ~IsException(result)
              /\ ~result.success
              /\ cert.extensions[oid].utf8 =>
                    result.reason = "Certificate's " \o name \o " does not match (got "
                        \o cert.extensions[oid].text \o ", expected "
                        \o policy.value \o ")"
         ELSE result = VerificationSuccess

\* C12: Issuer.verify and GitHubWorkflowRef.verify have exactly three
\* outcomes, decided by one fixed extension OID each: extension absent,
\* Failure naming the policy and the OID as missing; extension present with
\* another value, Failure "Certificate's <Name> does not match (got <value>,
\* expected <expected>)"; extension present and equal, Success.
C12_SingleExtensionOutcomes ==
    /\ Verified("Issuer") => ThreeOutcomes("Issuer", OIDC_ISSUER_OID)
    /\ Verified("GitHubWorkflowRef") =>
            ThreeOutcomes("GitHubWorkflowRef", OIDC_GITHUB_WORKFLOW_REF_OID)

\* The single-extension policies on the certificates whose extension value,
\* when present, is valid UTF-8.
ExtensionDecodes ==
    \A oid \in DOMAIN cert.extensions : cert.extensions[oid].utf8

SingleExtensionWhenItDecodes == ExtensionDecodes => C12_SingleExtensionOutcomes

\* --- policies as values
VerifyCalls == {n \in 1..Len(history) : history[n].call = "verify"}

\* C13: once a policy is constructed its verdict on a given certificate
\* never changes: a composite policy owns its children, so that what the
\* caller later does to the list it passed does not alter the policy, and
\* repeated verify calls return equal results.
C13_VerdictNeverChanges ==
    /\ \A n \in VerifyCalls : history[n].children = history[1].children
    /\ \A m, n \in VerifyCalls : history[m].result = history[n].result

\* verify itself changes nothing: two calls that find the same list give
\* the same result, and each gives the verdict of the list as it is then.
VerifyIsAFunctionOfTheList ==
    /\ \A m, n \in VerifyCalls :
          history[m].children = history[n].children =>
              history[m].result = history[n].result
    /\ \A n \in VerifyCalls :
          history[n].result
              = PolicyVerify([kind |-> policy.kind, children |-> history[n].children], cert)

\* --- the signed certificate timestamp
\* The number a numeral of at most three digits stands for.
RECURSIVE NumeralValue(_)
NumeralValue(numeral) ==
    IF numeral = <<>> THEN 0
    ELSE 256 * NumeralValue(SubSeq(numeral, 1, Len(numeral) - 1)) + numeral[Len(numeral)]

\* The number n in `width` bytes, big-endian.
RECURSIVE BigEndian(_, _)
BigEndian(n, width) ==
    IF width = 0 THEN <<>> ELSE Append(BigEndian(n \div 256, width - 1), n % 256)

\* The timestamp in eight bytes: its digits after the leading zero bytes.
TimestampBytes == [n \in 1..(8 - Len(sct.struct.timestamp)) |-> 0] \o sct.struct.timestamp

CertLength == NumeralValue(cert.public_bytes.len)
ExtensionsLength == NumeralValue(sct.struct.extensions.len)

\* The digitally-signed byte string as RFC 6962 lays it out.
Rfc6962DigitallySigned ==
    Concat(Concat(Concat(
        Chunk([bytes |-> BigEndian(NumeralValue(sct.struct.sct_version), 1) \o <<0>>
                            \o TimestampBytes \o <<0, 0>> \o BigEndian(CertLength, 3)]),
        Chunk(cert.public_bytes)),
        Chunk([bytes |-> BigEndian(ExtensionsLength, 2)])),
        Chunk(sct.struct.extensions))

RECURSIVE ByteLength(_)
ByteLength(data) ==
    IF data = <<>> THEN 0
    ELSE (IF IsLiteral(Head(data)) THEN Len(Head(data).bytes)
          ELSE NumeralValue(Head(data).len)) + ByteLength(Tail(data))

Packed == sct_pc \in {"verify", "done"}
FitsThreeBytes == Len(cert.public_bytes.len) <= 3

\* C14: for every SCT and every certificate whose DER length L is at most
\* 16,777,215, the digitally-signed byte string is, big-endian and unpadded,
\* 1 byte version, 1 byte 0, 8 bytes timestamp, 2 bytes 0, 3 bytes L, the L
\* DER bytes, 2 bytes E and the E bytes of the extensions blob, 17 + L + E
\* bytes in all, the length field being there also when E = 0.
C14_DigitallySignedLayout ==
    (Packed /\ FitsThreeBytes) =>
        /\ "struct.pack" \in {sct_calls[n] : n \in 1..Len(sct_calls)}
        /\ sct_error = NoError \/ "ctfe_key.verify" \in {sct_calls[n] : n \in 1..Len(sct_calls)}
        /\ digitally_signed = Rfc6962DigitallySigned
        /\ ByteLength(digitally_signed) = 17 + CertLength + ExtensionsLength

\* With an empty extensions blob the bytes are those of C14, 17 + L of them.
DigitallySignedWithoutExtensions ==
    sct.struct.extensions.len = <<>> => C14_DigitallySignedLayout

\* With extensions, the bytes end with the two-byte length (below 2^15).
DigitallySignedOmitsExtensions ==
    (Packed /\ FitsThreeBytes /\ digitally_signed # <<>>) =>
        /\ Concat(digitally_signed, Chunk(sct.struct.extensions)) = Rfc6962DigitallySigned
        /\ ByteLength(digitally_signed) = 17 + CertLength

OversizedCertificate ==
    InvalidSctError("Unexpectedly large certificate length", cert.public_bytes.len)

\* C15: SCT verification fails with the oversized-certificate InvalidSctError
\* for every certificate whose DER length exceeds 16,777,215 bytes and for
\* none whose length is at most that; the length is checked before any byte
\* is assembled and before any signature is verified, and an oversized
\* length produces no other kind of error.
C15_OversizedCertificate ==
    sct_pc = "done" =>
        IF ~FitsThreeBytes
        THEN /\ sct_error = OversizedCertificate
             /\ sct_calls = <<"public_bytes", "if unused">>
             /\ digitally_signed = <<>>
        ELSE sct_error # OversizedCertificate

\* The lengths struct.pack("!I", ...) takes: those below 2^32.
FitsFourBytes == Len(cert.public_bytes.len) <= 4

OversizedBelowFourGiB == FitsFourBytes => C15_OversizedCertificate

\* --- the signed entry timestamp
\* C16: for every entry body, holding both, one or neither of the fields
\* "verification" and "attestation", verify_set goes on to the signature
\* check, made over the canonical form of the body without the two fields
\* (an absent field is not an error), and leaves the entry's own raw body
\* as it was.
C16_SetOverBodyWithoutFields ==
    set_pc = "done" =>
        /\ set_error \in {NoError, Exception("InvalidSetError")}
        /\ canon_data = SignedPayload(set_entry.raw_data)
        /\ (set_error = NoError) <=>
              EcdsaVerify(RekorKey, set_entry.signedEntryTimestamp, SignedPayload(set_entry.raw_data))

\* The entries that hold both fields.
HasBothDeletedFields ==
    \A n \in 1..Len(SetDeletedFields) : SetDeletedFields[n] \in DOMAIN set_entry.raw_data

SetWhenBothFieldsPresent == HasBothDeletedFields => C16_SetOverBodyWithoutFields

\* The steps of verify_set give what VerifySet gives, and work on a copy.
SetStepsAgree ==
    set_pc = "done" =>
        VerifySet(set_entry) = IF set_error = NoError THEN "returned" ELSE set_error.exception

EntryLeftUnchanged == [][set_entry' = set_entry]_vars

\* --- hashed values
\* The output size, in bytes, of the supported algorithms.
OutputSize(algorithm) == CASE algorithm = "SHA2_256" -> 32

WellFormed(h) ==
    /\ h.algorithm \in {"SHA2_256"}
    /\ Len(h.digest) = OutputSize(h.algorithm)

\* C17: hazmat_algorithm and as_prehashed return a result only for a
\* well-formed Hashed value, one whose algorithm is in the supported set
\* (SHA2_256) and whose digest has that algorithm's output size (32 bytes);
\* for every other Hashed value they raise and never return.
C17_HashedWellFormed ==
    hashed_call # "none" =>
        IF WellFormed(hashed)
        THEN ~IsException(hashed_result)
        ELSE IsException(hashed_result)

\* The algorithm alone decides: a result for SHA2_256, ValueError otherwise.
HashedAcceptedBySupportedAlgorithm ==
    hashed_call # "none" =>
        IF hashed.algorithm = "SHA2_256"
        THEN hashed_result \in {Returned(SHA256), Returned(Prehashed(SHA256))}
        ELSE hashed_result = Exception("ValueError")

====
